---- MODULE Spec2Model ----
(***************************************************************************)
(* Model of aesara/scalar/math.py: the catalog of scalar operators whose   *)
(* Python implementations come from SciPy.  Every operator class offers    *)
(* up to three interpretations: numeric evaluation (impl / st_impl),       *)
(* symbolic differentiation (L_op / grad) and native code emission         *)
(* (c_code, c_support_code, c_code_cache_version).                         *)
(*                                                                         *)
(* The state is the process as the surrounding compiler sees it: the       *)
(* configured default float type, the number of times each bundled         *)
(* support file has been read from disk, and the result of the call that   *)
(* is currently being consumed by the caller.  A type is represented by    *)
(* its dtype name.  A symbolic expression is represented by its source     *)
(* text together with the dtype of the constant it embeds.  A number       *)
(* handed to softplus is represented in tenths (x = 333 stands for 33.3),  *)
(* which makes every threshold literal of the source an integer.           *)
(***************************************************************************)
EXTENDS Integers, Sequences, FiniteSets, TLC

VARIABLES floatX, reads, last

vars == <<floatX, reads, last>>

(***************************************************************************)
(* Bounds of the model.                                                    *)
(***************************************************************************)
\* softplus inputs are sampled within this many tenths of every threshold
XRadius == 1
\* operand values handed to the two-operand evaluators range over 1..MaxArg
MaxArg == 2
\* reads of one support file are counted up to this number
MaxReads == 2
\* entries of an inherited cache version range over 1..MaxVer
MaxVer == 2
\* an inherited cache version has at most this many entries
MaxVerLen == 1
\* operator instances are told apart by an identity in 1..MaxInst
MaxInst == 2

(***************************************************************************)
(* Types (aesara.scalar.basic).                                            *)
(***************************************************************************)
float_types == {"float16", "float32", "float64"}

complex_types == {"complex64", "complex128"}

discrete_types ==
    {"bool", "int8", "int16", "int32", "int64",
     "uint8", "uint16", "uint32", "uint64"}

float64 == "float64"

\* the types drawn for the operands of a differentiated or emitted node
NodeTypes == {"int8", "int64", "float16", "float32", "float64", "complex128"}

\* the types of an output gradient
GradTypes == {"float16", "float32", "float64"}

\* bits of floating precision a value of the type needs
Precision(t) ==
    CASE t \in {"int8", "uint8", "float16"} -> 16
      [] t \in {"float32", "complex64"} -> 32
      [] OTHER -> 64

Max2(a, b) == IF a >= b THEN a ELSE b

\* upcast(a, b): the natural join of two dtypes
upcast(a, b) ==
    LET p == Max2(Precision(a), Precision(b)) IN
    IF a \in complex_types \/ b \in complex_types
    THEN (IF p = 64 THEN "complex128" ELSE "complex64")
    ELSE IF a \in float_types \/ b \in float_types
    THEN (IF p = 64 THEN "float64" ELSE IF p = 32 THEN "float32" ELSE "float16")
    ELSE (IF a = b THEN a ELSE "int64")

\* upgrade_to_float applied to one operand type
upgrade_to_float(t) ==
    IF t \in discrete_types THEN floatX ELSE t

(***************************************************************************)
(* Outcomes of a call.                                                     *)
(***************************************************************************)
Return(v) == [outcome |-> "return", exc |-> "", value |-> v]

Raise(e) == [outcome |-> "raise", exc |-> e, value |-> <<>>]

\* x.zeros_like(dtype=...) ; dtype "same" is the dtype of x itself
zeros_like(x, dtype) == [kind |-> "zeros_like", text |-> x, dtype |-> dtype]

\* a gradient expression built from the combinators
Expr(text, cst) == [kind |-> "expr", text |-> text, dtype |-> cst]

\* grad_not_implemented(self, pos, v)
grad_not_implemented(pos, v) ==
    [kind |-> "grad_not_implemented", text |-> v, dtype |-> ""]

(***************************************************************************)
(* Differentiation rules.  inputs, outputs and grads are the sequences of  *)
(* the dtypes of the node's inputs, outputs and output gradients.          *)
(***************************************************************************)
Erf_L_op(inputs, outputs, grads) ==
    LET x == inputs[1]
        gz == grads[1]
    IN IF x \in complex_types THEN Raise("NotImplementedError")
       ELSE IF outputs[1] \in discrete_types
       THEN (IF x \in discrete_types
             THEN Return(<<zeros_like("x", floatX)>>)
             ELSE Return(<<zeros_like("x", "same")>>))
       ELSE Return(<<Expr("gz * cst * exp(-x * x)", upcast(x, gz))>>)

Erfc_L_op(inputs, outputs, grads) ==
    LET x == inputs[1]
        gz == grads[1]
    IN IF x \in complex_types THEN Raise("NotImplementedError")
       ELSE IF outputs[1] \in discrete_types
       THEN (IF x \in discrete_types
             THEN Return(<<zeros_like("x", floatX)>>)
             ELSE Return(<<zeros_like("x", "same")>>))
       ELSE Return(<<Expr("-gz * cst * exp(-x * x)", upcast(x, gz))>>)

Erfcx_L_op(inputs, outputs, grads) ==
    LET x == inputs[1]
        gz == grads[1]
    IN IF x \in complex_types THEN Raise("NotImplementedError")
       ELSE IF outputs[1] \in discrete_types
       THEN (IF x \in discrete_types
             THEN Return(<<zeros_like("x", floatX)>>)
             ELSE Return(<<zeros_like("x", "same")>>))
       ELSE Return(<<Expr("gz * (-cst + (2.0 * x) * erfcx(x))", upcast(x, gz))>>)

Erfinv_L_op(inputs, outputs, grads) ==
    LET x == inputs[1]
        gz == grads[1]
    IN IF x \in complex_types THEN Raise("NotImplementedError")
       ELSE IF outputs[1] \in discrete_types
       THEN (IF x \in discrete_types
             THEN Return(<<zeros_like("x", floatX)>>)
             ELSE Return(<<zeros_like("x", "same")>>))
       ELSE Return(<<Expr("gz * cst * exp(erfinv(x) ** 2)", upcast(x, gz))>>)

Erfcinv_L_op(inputs, outputs, grads) ==
    LET x == inputs[1]
        gz == grads[1]
    IN IF x \in complex_types THEN Raise("NotImplementedError")
       ELSE IF outputs[1] \in discrete_types
       THEN (IF x \in discrete_types
             THEN Return(<<zeros_like("x", floatX)>>)
             ELSE Return(<<zeros_like("x", "same")>>))
       ELSE Return(<<Expr("-gz * cst * exp(erfcinv(x) ** 2)", upcast(x, gz))>>)

Gamma_L_op(inputs, outputs, gout) ==
    LET x == inputs[1]
    IN IF x \in complex_types THEN Raise("NotImplementedError")
       ELSE IF outputs[1] \in discrete_types
       THEN (IF x \in discrete_types
             THEN Return(<<zeros_like("x", floatX)>>)
             ELSE Return(<<zeros_like("x", "same")>>))
       ELSE Return(<<Expr("gz * gamma(x) * psi(x)", "")>>)

GammaLn_L_op(inputs, outputs, grads) ==
    LET x == inputs[1]
    IN IF x \in complex_types THEN Raise("NotImplementedError")
       ELSE IF outputs[1] \in discrete_types
       THEN (IF x \in discrete_types
             THEN Return(<<zeros_like("x", floatX)>>)
             ELSE Return(<<zeros_like("x", "same")>>))
       ELSE Return(<<Expr("gz * psi(x)", "")>>)

Psi_L_op(inputs, outputs, grads) ==
    LET x == inputs[1]
    IN IF x \in complex_types THEN Raise("NotImplementedError")
       ELSE IF outputs[1] \in discrete_types
       THEN (IF x \in discrete_types
             THEN Return(<<zeros_like("x", floatX)>>)
             ELSE Return(<<zeros_like("x", "same")>>))
       ELSE Return(<<Expr("gz * tri_gamma(x)", "")>>)

\* TriGamma.grad returning a derivative instead of raising
TriGamma_grad_invented(inputs, outputs_gradients) ==
    Return(<<Expr("gz * tri_gamma(x)", "")>>)

TriGamma_grad(inputs, outputs_gradients) == Raise("NotImplementedError")

\* Jv.grad with the entry for v left out
Jv_grad_omit_v(inputs, grads) ==
    Return(<<Expr("gz * (jv(v - 1, x) - jv(v + 1, x)) / 2.0", "")>>)

Jv_grad(inputs, grads) ==
    Return(<<grad_not_implemented(0, "v"),
             Expr("gz * (jv(v - 1, x) - jv(v + 1, x)) / 2.0", "")>>)

J1_grad(inputs, grads) ==
    Return(<<Expr("gz * (j0(x) - jv(2, x)) / 2.0", "")>>)

J0_grad(inp, grads) ==
    Return(<<Expr("gz * -1 * j1(x)", "")>>)

\* Iv.grad with the difference of Jv.grad in place of the sum
Iv_grad_difference(inputs, grads) ==
    Return(<<grad_not_implemented(0, "v"),
             Expr("gz * (iv(v - 1, x) - iv(v + 1, x)) / 2.0", "")>>)

Iv_grad(inputs, grads) ==
    Return(<<grad_not_implemented(0, "v"),
             Expr("gz * (iv(v - 1, x) + iv(v + 1, x)) / 2.0", "")>>)

I1_grad(inputs, grads) ==
    Return(<<Expr("gz * (i0(x) + iv(2, x)) / 2.0", "")>>)

I0_grad(inp, grads) ==
    Return(<<Expr("gz * i1(x)", "")>>)

\* Sigmoid.grad asserting on the dtype of x instead of that of rval
Sigmoid_grad_assert_x(inp, grads) ==
    LET x == inp[1]
        gz == grads[1]
        y == upgrade_to_float(x)
        rval == upcast(gz, upcast(y, y))
    IN IF x \in float_types
       THEN Return(<<Expr("gz * y * (1.0 - y)", rval)>>)
       ELSE Raise("AssertionError")

\* rval = gz * y * (1.0 - y) with y = sigmoid(x); its dtype must name a float
Sigmoid_grad(inp, grads) ==
    LET x == inp[1]
        gz == grads[1]
        y == upgrade_to_float(x)
        rval == upcast(gz, upcast(y, y))
    IN IF rval \in float_types
       THEN Return(<<Expr("gz * y * (1.0 - y)", rval)>>)
       ELSE Raise("AssertionError")

Softplus_grad(inp, grads) ==
    Return(<<Expr("gz * sigmoid(x)", "")>>)

\* ScalarOp.grad, inherited by the classes that define no rule of their own
ScalarOp_grad(inputs, output_gradients) == Raise("MethodNotDefined")

(***************************************************************************)
(* Native code emission.  node_inputs and node_outputs are the dtypes of   *)
(* the node; the operand names are those the source binds (x, k, z).  A    *)
(* fragment is its text, the function it calls, the positions (in inp) of  *)
(* the operands it passes in call order, and the dtype of its cast         *)
(* ("" when it casts nothing).                                             *)
(***************************************************************************)
Frag(form, callee, args, cast) ==
    [form |-> form, callee |-> callee, args |-> args, cast |-> cast]

Erf_c_code(node_inputs, node_outputs) ==
    IF node_inputs[1] \in complex_types
    THEN Raise("NotImplementedError")
    ELSE Return(Frag("z = erf((cast)x);", "erf", <<1>>, node_outputs[1]))

Erfc_c_code(node_inputs, node_outputs) ==
    IF node_inputs[1] \in complex_types
    THEN Raise("NotImplementedError")
    ELSE Return(Frag("z = erfc((cast)x);", "erfc", <<1>>, node_outputs[1]))

Erfcx_c_code(node_inputs, node_outputs) ==
    IF node_inputs[1] \in float_types
    THEN Return(Frag("z = (dtype) Faddeeva::erfcx(x);", "Faddeeva::erfcx", <<1>>, node_outputs[1]))
    ELSE Raise("NotImplementedError")

Gamma_c_code(node_inputs, node_outputs) ==
    IF node_inputs[1] \in float_types
    THEN Return(Frag("z = tgamma(x);", "tgamma", <<1>>, ""))
    ELSE Raise("NotImplementedError")

GammaLn_c_code(node_inputs, node_outputs) ==
    IF node_inputs[1] \in complex_types
    THEN Raise("NotImplementedError")
    ELSE Return(Frag("z = lgamma((cast)x);", "lgamma", <<1>>, node_outputs[1]))

Psi_c_code(node_inputs, node_outputs) ==
    IF node_inputs[1] \in float_types
    THEN Return(Frag("z = _psi(x);", "_psi", <<1>>, ""))
    ELSE Raise("NotImplementedError")

TriGamma_c_code(node_inputs, node_outputs) ==
    IF node_inputs[1] \in float_types
    THEN Return(Frag("z = _tri_gamma(x);", "_tri_gamma", <<1>>, ""))
    ELSE Raise("NotImplementedError")

\* x, k = inp: GammaP receives k (position 2) and then x (position 1)
Chi2SF_c_code(node_inputs, node_outputs) ==
    IF node_inputs[1] \in float_types
    THEN Return(Frag("z = (dtype) 1 - GammaP(k/2., x/2.);", "GammaP", <<2, 1>>, node_outputs[1]))
    ELSE Raise("NotImplementedError")

\* k, x = inp
GammaInc_c_code(node_inputs, node_outputs) ==
    IF node_inputs[1] \in float_types
    THEN Return(Frag("z = (dtype) GammaP(k, x);", "GammaP", <<1, 2>>, node_outputs[1]))
    ELSE Raise("NotImplementedError")

GammaIncC_c_code(node_inputs, node_outputs) ==
    IF node_inputs[1] \in float_types
    THEN Return(Frag("z = (dtype) GammaQ(k, x);", "GammaQ", <<1, 2>>, node_outputs[1]))
    ELSE Raise("NotImplementedError")

GammaU_c_code(node_inputs, node_outputs) ==
    IF node_inputs[1] \in float_types
    THEN Return(Frag("z = (dtype) upperGamma(k, x);", "upperGamma", <<1, 2>>, node_outputs[1]))
    ELSE Raise("NotImplementedError")

GammaL_c_code(node_inputs, node_outputs) ==
    IF node_inputs[1] \in float_types
    THEN Return(Frag("z = (dtype) lowerGamma(k, x);", "lowerGamma", <<1, 2>>, node_outputs[1]))
    ELSE Raise("NotImplementedError")

J1_c_code(node_inputs, node_outputs) ==
    IF node_inputs[1] \in float_types
    THEN Return(Frag("z = j1(x);", "j1", <<1>>, ""))
    ELSE Raise("NotImplementedError")

J0_c_code(node_inputs, node_outputs) ==
    IF node_inputs[1] \in float_types
    THEN Return(Frag("z = j0(x);", "j0", <<1>>, ""))
    ELSE Raise("NotImplementedError")

\* Sigmoid.c_code choosing its variant by the output type
Sigmoid_c_code_by_output(node_inputs, node_outputs) ==
    IF node_inputs[1] \in float_types
    THEN (IF node_outputs[1] = float64
          THEN Return(Frag("z = 1.0 / (1.0 + exp(-x));", "exp", <<1>>, ""))
          ELSE Return(Frag("z = 1.0f / (1.0f + exp(-x));", "exp", <<1>>, "")))
    ELSE Raise("NotImplementedError")

Sigmoid_c_code(node_inputs, node_outputs) ==
    IF node_inputs[1] \in float_types
    THEN (IF node_inputs[1] = float64
          THEN Return(Frag("z = 1.0 / (1.0 + exp(-x));", "exp", <<1>>, ""))
          ELSE Return(Frag("z = 1.0f / (1.0f + exp(-x));", "exp", <<1>>, "")))
    ELSE Raise("NotImplementedError")

(***************************************************************************)
(* Softplus.  Threshold literals are in tenths.                            *)
(***************************************************************************)
\* static_impl: x < -37.0
Eval_T1 == -370
\* static_impl: x < 18.0
Eval_T2 == 180
\* static_impl: x < 33.3
Eval_T3 == 333
\* c_code, float64: x < -745.0
C64_T0 == -7450
\* c_code, float64: x < -37.0
C64_T1 == -370
\* c_code, float64: x < 18.0
C64_T2 == 180
\* c_code, float64: x < 33.3
C64_T3 == 333
\* c_code, other floats: x < -103.0f
C32_T0 == -1030
\* c_code, other floats: x < -37.0f
C32_T1 == -370
\* c_code, other floats: x < 18.0f
C32_T2 == 180
\* c_code, other floats: x < 33.3f
C32_T3 == 333

\* Softplus.c_code with the exp and log1p arms of both variants exchanged
Softplus_c_code_swapped(node_inputs, node_outputs) ==
    IF node_inputs[1] \in float_types
    THEN (IF node_inputs[1] = "float64"
          THEN Return([form |-> "z = ( ... );", callee |-> "exp", args |-> <<1>>,
                       cast |-> "", otherwise |-> "x", suffix |-> "",
                       arms |-> <<[below |-> C64_T0, formula |-> "0.0"],
                                  [below |-> C64_T1, formula |-> "log1p(exp(x))"],
                                  [below |-> C64_T2, formula |-> "exp(x)"],
                                  [below |-> C64_T3, formula |-> "x + exp(-x)"]>>])
          ELSE Return([form |-> "z = ( ... );", callee |-> "exp", args |-> <<1>>,
                       cast |-> "", otherwise |-> "x", suffix |-> "f",
                       arms |-> <<[below |-> C32_T0, formula |-> "0.0"],
                                  [below |-> C32_T1, formula |-> "log1p(exp(x))"],
                                  [below |-> C32_T2, formula |-> "exp(x)"],
                                  [below |-> C32_T3, formula |-> "x + exp(-x)"]>>]))
    ELSE Raise("NotImplementedError")

\* one arm of the emitted conditional chain: x < below ? formula
Arm(below, formula) == [below |-> below, formula |-> formula]

\* the emitted conditional chain: its arms in order, and the final operand
Chain(arms, otherwise, suffix) ==
    [form |-> "z = ( ... );", callee |-> "exp", args |-> <<1>>, cast |-> "",
     arms |-> arms, otherwise |-> otherwise, suffix |-> suffix]

Softplus_c_code(node_inputs, node_outputs) ==
    IF node_inputs[1] \in float_types
    THEN (IF node_inputs[1] = float64
          THEN Return(Chain(<<Arm(C64_T0, "0.0"),
                              Arm(C64_T1, "exp(x)"),
                              Arm(C64_T2, "log1p(exp(x))"),
                              Arm(C64_T3, "x + exp(-x)")>>, "x", ""))
          ELSE Return(Chain(<<Arm(C32_T0, "0.0"),
                              Arm(C32_T1, "exp(x)"),
                              Arm(C32_T2, "log1p(exp(x))"),
                              Arm(C32_T3, "x + exp(-x)")>>, "x", "f")))
    ELSE Raise("NotImplementedError")

\* the value of a numeric call: the function applied, its arguments in call
\* order, and the signature forced on numpy ("" when none is)
Call(fn, args, signature) ==
    [fn |-> fn, args |-> args, signature |-> signature]

\* Softplus.static_impl with <= in place of < at every threshold
Softplus_static_impl_le(x, dtype) ==
    LET not_int8 == dtype \notin {"int8", "uint8"}
        sig == IF not_int8 THEN "" ELSE "f"
    IN IF x <= Eval_T1 THEN Call("np.exp(x)", <<x>>, sig)
       ELSE IF x <= Eval_T2 THEN Call("np.log1p(np.exp(x))", <<x>>, sig)
       ELSE IF x <= Eval_T3 THEN Call("x + np.exp(-x)", <<x>>, sig)
       ELSE Call("x", <<x>>, "")

Softplus_static_impl(x, dtype) ==
    LET not_int8 == dtype \notin {"int8", "uint8"}
        sig == IF not_int8 THEN "" ELSE "f"
    IN IF x < Eval_T1 THEN Call("np.exp(x)", <<x>>, sig)
       ELSE IF x < Eval_T2 THEN Call("np.log1p(np.exp(x))", <<x>>, sig)
       ELSE IF x < Eval_T3 THEN Call("x + np.exp(-x)", <<x>>, sig)
       ELSE Call("x", <<x>>, "")

(***************************************************************************)
(* Numeric evaluation of the two-operand gamma family.                     *)
(***************************************************************************)
Chi2SF_st_impl(x, k) == Call("scipy.stats.chi2.sf", <<x, k>>, "")

GammaInc_st_impl(k, x) == Call("scipy.special.gammainc", <<k, x>>, "")

GammaIncC_st_impl(k, x) == Call("scipy.special.gammaincc", <<x, k>>, "")

GammaU_st_impl(k, x) ==
    Call("scipy.special.gammaincc * scipy.special.gamma(k)", <<k, x>>, "")

GammaL_st_impl(k, x) ==
    Call("scipy.special.gammainc * scipy.special.gamma(k)", <<k, x>>, "")

(***************************************************************************)
(* Cache versions.  v is the version the parent class reports.             *)
(***************************************************************************)
\* Sigmoid.c_code_cache_version without the test of v
Sigmoid_c_code_cache_version_always(v) == <<2>> \o v

Sigmoid_c_code_cache_version(v) ==
    IF v # <<>> THEN <<2>> \o v ELSE v

Softplus_c_code_cache_version(v) ==
    IF v # <<>> THEN <<2>> \o v ELSE v

(***************************************************************************)
(* Support code.  Each definition names the bundled file the method opens  *)
(* and reads ("" when the text is a literal of the source).                *)
(***************************************************************************)
Erfcx_c_support_code == "Faddeeva.cc"

Psi_c_support_code == ""

TriGamma_c_support_code == ""

Chi2SF_c_support_code == "gamma.c"

GammaInc_c_support_code == "gamma.c"

GammaIncC_c_support_code == "gamma.c"

GammaU_c_support_code == "gamma.c"

GammaL_c_support_code == "gamma.c"

SupportFiles == {"Faddeeva.cc", "gamma.c"}

(***************************************************************************)
(* Operator instances: the class, the promotion policy handed to the       *)
(* constructor, and the identity of the object.                            *)
(***************************************************************************)
UnaryOps ==
    {"Erf", "Erfc", "Erfcx", "Erfinv", "Erfcinv", "Gamma", "GammaLn", "Psi",
     "TriGamma", "J1", "J0", "I1", "I0", "Sigmoid", "Softplus"}

BinaryOps ==
    {"Chi2SF", "GammaInc", "GammaIncC", "GammaU", "GammaL", "Jv", "Iv"}

Ops == UnaryOps \cup BinaryOps

\* the policies the five classes that define __eq__ are constructed with
Policies == {"upgrade_to_float", "upgrade_to_float64"}

Instances == [type : Ops, policy : Policies, id : 1..MaxInst]

\* hash(type(self)): one number per class
TypeHash(cls) ==
    CASE cls = "Chi2SF" -> 1
      [] cls = "GammaInc" -> 2
      [] cls = "GammaIncC" -> 3
      [] cls = "GammaU" -> 4
      [] cls = "GammaL" -> 5
      [] OTHER -> 0

\* object.__eq__: identity
Chi2SF_eq_identity(self, other) == self = other

Chi2SF_eq(self, other) == self.type = other.type

Chi2SF_hash(self) == TypeHash(self.type)

GammaInc_eq(self, other) == self.type = other.type

GammaInc_hash(self) == TypeHash(self.type)

GammaIncC_eq(self, other) == self.type = other.type

GammaIncC_hash(self) == TypeHash(self.type)

GammaU_eq(self, other) == self.type = other.type

GammaU_hash(self) == TypeHash(self.type)

GammaL_eq(self, other) == self.type = other.type

GammaL_hash(self) == TypeHash(self.type)

FiveOps == {"Chi2SF", "GammaInc", "GammaIncC", "GammaU", "GammaL"}

FiveInstances == {i \in Instances : i.type \in FiveOps}

\* self == other, by the __eq__ of self's class
eq(self, other) ==
    CASE self.type = "Chi2SF" -> Chi2SF_eq(self, other)
      [] self.type = "GammaInc" -> GammaInc_eq(self, other)
      [] self.type = "GammaIncC" -> GammaIncC_eq(self, other)
      [] self.type = "GammaU" -> GammaU_eq(self, other)
      [] self.type = "GammaL" -> GammaL_eq(self, other)

\* hash(self), by the __hash__ of self's class
hash(self) ==
    CASE self.type = "Chi2SF" -> Chi2SF_hash(self)
      [] self.type = "GammaInc" -> GammaInc_hash(self)
      [] self.type = "GammaIncC" -> GammaIncC_hash(self)
      [] self.type = "GammaU" -> GammaU_hash(self)
      [] self.type = "GammaL" -> GammaL_hash(self)

(***************************************************************************)
(* Dispatch on the class of the operator.                                  *)
(***************************************************************************)
\* nin of the class: 1 under UnaryScalarOp, 2 under BinaryScalarOp
nin(cls) == IF cls \in BinaryOps THEN 2 ELSE 1

\* ScalarOp.L_op: the class's own L_op, or else its grad
L_op(cls, inputs, outputs, grads) ==
    CASE cls = "Erf" -> Erf_L_op(inputs, outputs, grads)
      [] cls = "Erfc" -> Erfc_L_op(inputs, outputs, grads)
      [] cls = "Erfcx" -> Erfcx_L_op(inputs, outputs, grads)
      [] cls = "Erfinv" -> Erfinv_L_op(inputs, outputs, grads)
      [] cls = "Erfcinv" -> Erfcinv_L_op(inputs, outputs, grads)
      [] cls = "Gamma" -> Gamma_L_op(inputs, outputs, grads)
      [] cls = "GammaLn" -> GammaLn_L_op(inputs, outputs, grads)
      [] cls = "Psi" -> Psi_L_op(inputs, outputs, grads)
      [] cls = "TriGamma" -> TriGamma_grad(inputs, grads)
      [] cls = "Jv" -> Jv_grad(inputs, grads)
      [] cls = "J1" -> J1_grad(inputs, grads)
      [] cls = "J0" -> J0_grad(inputs, grads)
      [] cls = "Iv" -> Iv_grad(inputs, grads)
      [] cls = "I1" -> I1_grad(inputs, grads)
      [] cls = "I0" -> I0_grad(inputs, grads)
      [] cls = "Sigmoid" -> Sigmoid_grad(inputs, grads)
      [] cls = "Softplus" -> Softplus_grad(inputs, grads)
      [] OTHER -> ScalarOp_grad(inputs, grads)

\* the classes that define c_code
EmittingOps ==
    {"Erf", "Erfc", "Erfcx", "Gamma", "GammaLn", "Psi", "TriGamma", "Chi2SF",
     "GammaInc", "GammaIncC", "GammaU", "GammaL", "J1", "J0", "Sigmoid",
     "Softplus"}

c_code(cls, node_inputs, node_outputs) ==
    CASE cls = "Erf" -> Erf_c_code(node_inputs, node_outputs)
      [] cls = "Erfc" -> Erfc_c_code(node_inputs, node_outputs)
      [] cls = "Erfcx" -> Erfcx_c_code(node_inputs, node_outputs)
      [] cls = "Gamma" -> Gamma_c_code(node_inputs, node_outputs)
      [] cls = "GammaLn" -> GammaLn_c_code(node_inputs, node_outputs)
      [] cls = "Psi" -> Psi_c_code(node_inputs, node_outputs)
      [] cls = "TriGamma" -> TriGamma_c_code(node_inputs, node_outputs)
      [] cls = "Chi2SF" -> Chi2SF_c_code(node_inputs, node_outputs)
      [] cls = "GammaInc" -> GammaInc_c_code(node_inputs, node_outputs)
      [] cls = "GammaIncC" -> GammaIncC_c_code(node_inputs, node_outputs)
      [] cls = "GammaU" -> GammaU_c_code(node_inputs, node_outputs)
      [] cls = "GammaL" -> GammaL_c_code(node_inputs, node_outputs)
      [] cls = "J1" -> J1_c_code(node_inputs, node_outputs)
      [] cls = "J0" -> J0_c_code(node_inputs, node_outputs)
      [] cls = "Sigmoid" -> Sigmoid_c_code(node_inputs, node_outputs)
      [] cls = "Softplus" -> Softplus_c_code(node_inputs, node_outputs)

\* the classes that define c_support_code, GammaU having lost its own
SupportedOps_without_GammaU ==
    {"Erfcx", "Psi", "TriGamma", "Chi2SF", "GammaInc", "GammaIncC", "GammaL"}

\* the classes that define c_support_code
SupportedOps ==
    {"Erfcx", "Psi", "TriGamma", "Chi2SF", "GammaInc", "GammaIncC", "GammaU",
     "GammaL"}

c_support_code(cls) ==
    CASE cls = "Erfcx" -> Erfcx_c_support_code
      [] cls = "Psi" -> Psi_c_support_code
      [] cls = "TriGamma" -> TriGamma_c_support_code
      [] cls = "Chi2SF" -> Chi2SF_c_support_code
      [] cls = "GammaInc" -> GammaInc_c_support_code
      [] cls = "GammaIncC" -> GammaIncC_c_support_code
      [] cls = "GammaU" -> GammaU_c_support_code
      [] cls = "GammaL" -> GammaL_c_support_code

\* the class's own override, or else the version of the parent class
c_code_cache_version(cls, v) ==
    CASE cls = "Sigmoid" -> Sigmoid_c_code_cache_version(v)
      [] cls = "Softplus" -> Softplus_c_code_cache_version(v)
      [] OTHER -> v

\* impl of the two-operand gamma family: each hands its operands to st_impl
impl(cls, a, b) ==
    CASE cls = "Chi2SF" -> Chi2SF_st_impl(a, b)
      [] cls = "GammaInc" -> GammaInc_st_impl(a, b)
      [] cls = "GammaIncC" -> GammaIncC_st_impl(a, b)
      [] cls = "GammaU" -> GammaU_st_impl(a, b)
      [] cls = "GammaL" -> GammaL_st_impl(a, b)

(***************************************************************************)
(* Inputs.                                                                 *)
(***************************************************************************)
TypeSeqs(n) == [1..n -> NodeTypes]

Versions == UNION {[1..n -> 1..MaxVer] : n \in 0..MaxVerLen}

\* every threshold literal of softplus, and the sample points of the
\* documented scenarios (-800, -40, 0, 25, 40)
Thresholds ==
    {Eval_T1, Eval_T2, Eval_T3, C64_T0, C64_T1, C64_T2, C64_T3,
     C32_T0, C32_T1, C32_T2, C32_T3}

XSamples ==
    {t + d : t \in Thresholds, d \in (0 - XRadius)..XRadius}
        \cup {0 - 8000, 0 - 400, 0, 250, 400}

ValueTypes == {"int8", "uint8", "int64", "float32", "float64"}

\* whether the number x (in tenths) is a value of the dtype
Fits(x, dtype) ==
    CASE dtype = "int8" -> x % 10 = 0 /\ x >= 0 - 1280 /\ x <= 1270
      [] dtype = "uint8" -> x % 10 = 0 /\ x >= 0 /\ x <= 2550
      [] dtype = "int64" -> x % 10 = 0
      [] OTHER -> TRUE

\* the formula the emitted conditional chain selects for x: that of the
\* first arm whose test x < below succeeds, or else the final operand
Selected(chain, x) ==
    LET hits == {i \in 1..Len(chain.arms) : x < chain.arms[i].below} IN
    IF hits = {} THEN chain.otherwise
    ELSE chain.arms[CHOOSE i \in hits : \A j \in hits : i <= j].formula

(***************************************************************************)
(* The state machine.  The caller makes one call at a time and consumes    *)
(* its result before the next.                                             *)
(***************************************************************************)
NoCall == [call |-> "none"]

Init ==
    /\ floatX \in {"float32", "float64"}
    /\ reads = [f \in SupportFiles |-> 0]
    /\ last = NoCall

\* the differentiation pass calls op.L_op(inputs, outputs, output_gradients)
Differentiate ==
    /\ last = NoCall
    /\ \E cls \in Ops, out \in NodeTypes, gz \in GradTypes :
         \E inputs \in TypeSeqs(nin(cls)) :
            last' = [call |-> "L_op", op |-> cls, inputs |-> inputs,
                     outputs |-> <<out>>, grads |-> <<gz>>,
                     res |-> L_op(cls, inputs, <<out>>, <<gz>>)]
    /\ UNCHANGED <<floatX, reads>>

\* the compilation pass calls op.c_code(node, name, inp, out, sub)
Emit ==
    /\ last = NoCall
    /\ \E cls \in EmittingOps, out \in NodeTypes :
         \E inputs \in TypeSeqs(nin(cls)) :
            last' = [call |-> "c_code", op |-> cls, inputs |-> inputs,
                     outputs |-> <<out>>,
                     res |-> c_code(cls, inputs, <<out>>)]
    /\ UNCHANGED <<floatX, reads>>

\* softplus.impl(x): Softplus.static_impl(x)
EvaluateSoftplus ==
    /\ last = NoCall
    /\ \E x \in XSamples, dtype \in ValueTypes :
         /\ Fits(x, dtype)
         /\ last' = [call |-> "impl", op |-> "Softplus", args |-> <<x>>,
                     dtype |-> dtype, res |-> Softplus_static_impl(x, dtype)]
    /\ UNCHANGED <<floatX, reads>>

\* op.impl(a, b) of the two-operand gamma family
EvaluateGamma ==
    /\ last = NoCall
    /\ \E cls \in FiveOps, a \in 1..MaxArg, b \in 1..MaxArg :
         last' = [call |-> "impl", op |-> cls, args |-> <<a, b>>,
                  dtype |-> "float64", res |-> impl(cls, a, b)]
    /\ UNCHANGED <<floatX, reads>>

\* op.c_support_code(): a bundled file is opened and read on every call
SupportCode ==
    /\ last = NoCall
    /\ \E cls \in SupportedOps :
         LET file == c_support_code(cls) IN
         /\ file \in SupportFiles => reads[file] < MaxReads
         /\ reads' = IF file \in SupportFiles
                     THEN [reads EXCEPT ![file] = @ + 1]
                     ELSE reads
         /\ last' = [call |-> "c_support_code", op |-> cls, file |-> file]
    /\ UNCHANGED floatX

\* op.c_code_cache_version(), v being what the parent class reports
CacheVersion ==
    /\ last = NoCall
    /\ \E cls \in Ops, v \in Versions :
         last' = [call |-> "c_code_cache_version", op |-> cls, base |-> v,
                  res |-> c_code_cache_version(cls, v)]
    /\ UNCHANGED <<floatX, reads>>

\* a == b and hash(a), a being of a class that defines __eq__ and __hash__
Compare ==
    /\ last = NoCall
    /\ \E a \in FiveInstances, b \in Instances :
         last' = [call |-> "eq", a |-> a, b |-> b, ab |-> eq(a, b),
                  aa |-> eq(a, a), ha |-> hash(a)]
    /\ UNCHANGED <<floatX, reads>>

\* graph deduplication compares three operators pairwise
Deduplicate ==
    /\ last = NoCall
    /\ \E a \in FiveInstances, b \in FiveInstances, c \in FiveInstances :
         last' = [call |-> "dedup", a |-> a, b |-> b, c |-> c,
                  ab |-> eq(a, b), ba |-> eq(b, a), bc |-> eq(b, c),
                  ac |-> eq(a, c), ha |-> hash(a), hb |-> hash(b)]
    /\ UNCHANGED <<floatX, reads>>

\* the caller has consumed the result
Consume ==
    /\ last # NoCall
    /\ last' = NoCall
    /\ UNCHANGED <<floatX, reads>>

Next ==
    \/ Differentiate
    \/ Emit
    \/ EvaluateSoftplus
    \/ EvaluateGamma
    \/ SupportCode
    \/ CacheVersion
    \/ Compare
    \/ Deduplicate
    \/ Consume

Spec == Init /\ [][Next]_vars

(***************************************************************************)
(* Properties.                                                             *)
(***************************************************************************)
IsLOp == last.call = "L_op"

IsCCode == last.call = "c_code"

Returned == last.res.outcome = "return"

\* C1: whenever the output type of the node is discrete, a differentiation
\* rule that returns gives the zero expression for every input, whatever
\* the operator (jv, j0, j1, iv, i0, i1, sigmoid and softplus included).
C1_DiscreteOutputGivesZeros ==
    (IsLOp /\ last.outputs[1] \in discrete_types /\ Returned)
        => \A i \in 1..Len(last.res.value) :
              last.res.value[i].kind = "zeros_like"

\* C2: a differentiation rule called with a complex-typed input raises an
\* error and returns no gradient expression, whatever the operator.
C2_ComplexInputRaises ==
    (IsLOp /\ \E i \in 1..Len(last.inputs) : last.inputs[i] \in complex_types)
        => last.res.outcome = "raise"

\* C3: a differentiation rule that returns gives exactly one gradient entry
\* per input: one for a unary operator, two for a binary operator.
C3_OneGradientPerInput ==
    (IsLOp /\ Returned)
        => /\ Len(last.res.value) = Len(last.inputs)
           /\ Len(last.res.value) = nin(last.op)

C3_Witness ==
    /\ IsLOp
    /\ last.op = "Jv"
    /\ Returned
    /\ Len(last.res.value) = 2
    /\ last.res.value[1].kind = "grad_not_implemented"
    /\ last.res.value[2].kind = "expr"

\* C4: emission raises NotImplementedError, and returns no fragment, whenever
\* any operand of the node is complex; for the two-operand operators this
\* holds whichever of the two operands is the complex one.
C4_ComplexOperandNotEmitted ==
    (IsCCode /\ \E i \in 1..Len(last.inputs) : last.inputs[i] \in complex_types)
        => /\ last.res.outcome = "raise"
           /\ last.res.exc = "NotImplementedError"

\* C5: the evaluator of gammaincc hands its operands (k, x) to the reference
\* function in the order in which the emitted code hands them to GammaQ.
C5_GammaIncCArgumentOrder ==
    (last.call = "impl" /\ last.op = "GammaIncC")
        => LET frag == GammaIncC_c_code(<<"float64", "float64">>,
                                        <<"float64">>).value
           IN last.res.args = [i \in 1..2 |-> last.args[frag.args[i]]]

\* C6: the softplus evaluator selects exp(x) for x < -37, log1p(exp(x)) for
\* -37 <= x < 18, x + exp(-x) for 18 <= x < 33.3 and x itself for x >= 33.3
\* (x in tenths).
C6_SoftplusRegions ==
    (last.call = "impl" /\ last.op = "Softplus")
        => LET x == last.args[1]
               fn == last.res.fn
           IN /\ (x < 0 - 370) => fn = "np.exp(x)"
              /\ (x >= 0 - 370 /\ x < 180) => fn = "np.log1p(np.exp(x))"
              /\ (x >= 180 /\ x < 333) => fn = "x + np.exp(-x)"
              /\ (x >= 333) => fn = "x"

C6_Witness ==
    /\ last.call = "impl"
    /\ last.op = "Softplus"
    /\ last.args[1] = 333
    /\ last.res.fn = "x"

\* the numpy text of a formula of the emitted code
NumpyText(formula) ==
    CASE formula = "exp(x)" -> "np.exp(x)"
      [] formula = "log1p(exp(x))" -> "np.log1p(np.exp(x))"
      [] formula = "x + exp(-x)" -> "x + np.exp(-x)"
      [] OTHER -> formula

\* the low threshold of the emitted variant: -745 for float64, -103 otherwise
LowThreshold(dtype) == IF dtype = "float64" THEN 0 - 7450 ELSE 0 - 1030

C8_CacheVersion ==
    (last.call = "c_code_cache_version")
        => IF last.op \in {"Sigmoid", "Softplus"}
           THEN /\ (last.base # <<>>) => last.res = <<2>> \o last.base
                /\ (last.base = <<>>) => last.res = <<>>
           ELSE last.res = last.base

C8_Witness ==
    /\ last.call = "c_code_cache_version"
    /\ last.op = "Sigmoid"
    /\ last.base # <<>>
    /\ Len(last.res) = Len(last.base) + 1
    /\ last.res[1] = 2

\* C9: each bundled support file is read from disk at most once, however
\* many times support code is requested.
C9_SupportFileReadOnce ==
    \A f \in SupportFiles : reads[f] <= 1

\* C10: for chi2sf, gammainc, gammaincc, gammau and gammal, two instances of
\* the same class and policy are equal with equal hashes, instances of
\* different classes are never equal, and equality is reflexive, symmetric
\* and transitive.
C10_StructuralEquality ==
    /\ (last.call = "eq")
          => /\ (last.a.type = last.b.type /\ last.a.policy = last.b.policy)
                   => last.ab
             /\ (last.a.type # last.b.type) => ~last.ab
             /\ last.aa
    /\ (last.call = "dedup")
          => /\ (last.a.type = last.b.type /\ last.a.policy = last.b.policy)
                   => (last.ab /\ last.ha = last.hb)
             /\ last.ab <=> last.ba
             /\ (last.ab /\ last.bc) => last.ac

C10_Witness ==
    /\ last.call = "dedup"
    /\ last.a.type = last.b.type
    /\ last.a.policy = last.b.policy
    /\ last.a.id # last.b.id
    /\ last.b.type = last.c.type
    /\ last.ab /\ last.bc /\ last.ac
    /\ last.ha = last.hb

\* C11: differentiating tri_gamma, chi2sf, gammainc, gammaincc, gammau or
\* gammal ends in the not-implemented outcome for every input type: the rule
\* raises and returns no gradient expression.
C11_NotImplementedDifferentiation ==
    (IsLOp /\ last.op \in FiveOps \cup {"TriGamma"})
        => /\ last.res.outcome = "raise"
           /\ last.res.exc \in {"NotImplementedError", "MethodNotDefined"}
           /\ last.res.value = <<>>

C11_Witness ==
    /\ IsLOp
    /\ last.op = "TriGamma"
    /\ last.inputs[1] = "float64"
    /\ last.res.outcome = "raise"
    /\ last.res.exc = "NotImplementedError"

\* C12: differentiating jv or iv with inputs (v, x) that are not complex
\* returns two entries: the not-implemented marker for v at position 0, and
\* for x at position 1 the expression gz * (op(v - 1, x) -/+ op(v + 1, x)) / 2
\* (difference for jv, sum for iv).
C12_BesselOrderGradient ==
    (IsLOp /\ last.op \in {"Jv", "Iv"}
           /\ \A i \in 1..Len(last.inputs) : last.inputs[i] \notin complex_types)
        => /\ Returned
           /\ Len(last.res.value) = 2
           /\ last.res.value[1].kind = "grad_not_implemented"
           /\ last.res.value[1].text = "v"
           /\ last.res.value[2].kind = "expr"
           /\ last.res.value[2].text =
                 (IF last.op = "Jv"
                  THEN "gz * (jv(v - 1, x) - jv(v + 1, x)) / 2.0"
                  ELSE "gz * (iv(v - 1, x) + iv(v + 1, x)) / 2.0")

C12_Witness ==
    /\ IsLOp
    /\ last.op = "Iv"
    /\ last.inputs = <<"float32", "float64">>
    /\ Returned
    /\ last.res.value[1].kind = "grad_not_implemented"
    /\ last.res.value[2].kind = "expr"

\* C13: sigmoid and softplus emit by the input type alone: the 64-bit
\* variant (double constants; for softplus the -745 threshold) exactly for
\* float64, the 32-bit variant (float constants; the -103 threshold) for
\* every other floating type, float16 included, and NotImplementedError for
\* every type that is not floating.
C13_VariantByInputType ==
    (IsCCode /\ last.op \in {"Sigmoid", "Softplus"})
        => LET t == last.inputs[1]
               wide == t = "float64"
           IN IF t \in {"float16", "float32", "float64"}
              THEN /\ Returned
                   /\ (last.op = "Sigmoid")
                        => last.res.value.form =
                              (IF wide THEN "z = 1.0 / (1.0 + exp(-x));"
                               ELSE "z = 1.0f / (1.0f + exp(-x));")
                   /\ (last.op = "Softplus")
                        => /\ last.res.value.suffix = (IF wide THEN "" ELSE "f")
                           /\ last.res.value.arms[1].below =
                                 (IF wide THEN 0 - 7450 ELSE 0 - 1030)
              ELSE /\ last.res.outcome = "raise"
                   /\ last.res.exc = "NotImplementedError"

C13_Witness ==
    /\ IsCCode
    /\ last.op = "Softplus"
    /\ last.inputs[1] = "float16"
    /\ last.outputs[1] = "float64"
    /\ Returned
    /\ last.res.value.suffix = "f"
    /\ last.res.value.arms[1].below = 0 - 1030

\* C14: the assertion of sigmoid's differentiation rule (the dtype of the
\* gradient expression names a float) holds for every input type that is not
\* complex, floating or discrete, with any floating output gradient.
C14_SigmoidAssertionHolds ==
    (IsLOp /\ last.op = "Sigmoid"
           /\ last.inputs[1] \notin complex_types
           /\ last.grads[1] \in float_types)
        => /\ Returned
           /\ last.res.value[1].dtype \in float_types

C14_Witness ==
    /\ IsLOp
    /\ last.op = "Sigmoid"
    /\ last.inputs[1] = "int8"
    /\ last.grads[1] = "float16"
    /\ Returned
    /\ last.res.value[1].dtype \in float_types

\* the functions of the emitted code that the standard math library lacks
BundledHelpers ==
    {"Faddeeva::erfcx", "GammaP", "GammaQ", "upperGamma", "lowerGamma",
     "_psi", "_tri_gamma"}

\* C15: an operator whose emission returns a fragment calling a function
\* outside the standard math library also defines c_support_code.
C15_HelperCallHasSupportCode ==
    (IsCCode /\ Returned /\ last.res.value.callee \in BundledHelpers)
        => last.op \in SupportedOps

C15_Witness ==
    /\ IsCCode
    /\ last.op = "GammaU"
    /\ Returned
    /\ last.res.value.callee = "upperGamma"
    /\ last.op \in SupportedOps

====
